---- MODULE Spec2Model ----
(***************************************************************************)
(* Ledger engine of the finance tracker: the zustand store                 *)
(* (useFinanceStore), the pure calculation functions it calls              *)
(* (calculateProfit, validateProfitDistribution, distributeProfit,         *)
(* validateTransaction, applyTransactionToFunds) and the settings page's   *)
(* tax toggle.                                                             *)
(*                                                                         *)
(* A JavaScript number is modelled as an exact rational <<n, d>> in lowest *)
(* terms with d > 0, extended with NaN = <<0,0>>, +Infinity = <<1,0>> and  *)
(* -Infinity = <<-1,0>>.  Arithmetic is exact: the binary rounding of      *)
(* IEEE doubles is not modelled.  Timestamps, descriptions, colours and    *)
(* transaction ids are never read by the engine and are left out.          *)
(***************************************************************************)
EXTENDS Integers, Sequences, FiniteSets, TLC

(***************************************************************************)
(* Numbers                                                                 *)
(***************************************************************************)
Abs(x) == IF x < 0 THEN -x ELSE x

Sign(x) == IF x < 0 THEN -1 ELSE IF x > 0 THEN 1 ELSE 0

RECURSIVE GCD(_, _)
GCD(a, b) == IF b = 0 THEN a ELSE GCD(b, a % b)

\* the number n/d in canonical form (d = 0 gives NaN or an infinity)
Norm(n, d) ==
  IF d = 0 THEN <<Sign(n), 0>>
  ELSE LET g == GCD(Abs(n), Abs(d))
           s == IF d < 0 THEN -1 ELSE 1
       IN  <<(s * n) \div g, (s * d) \div g>>

\* the decimal literal n/d, e.g. Dec(3999, 100) is 39.99
Dec(n, d) == Norm(n, d)

Zero == <<0, 1>>

Hundred == <<100, 1>>

NaN == <<0, 0>>

\* the value of an absent optional number field
undefined == << >>

IsNaN(a) == a = NaN

IsFinite(a) == a[2] # 0

NNeg(a) == <<-a[1], a[2]>>

NAdd(a, b) ==
  IF IsFinite(a) /\ IsFinite(b)
  THEN LET g == GCD(a[2], b[2])
       IN  Norm(a[1] * (b[2] \div g) + b[1] * (a[2] \div g), a[2] * (b[2] \div g))
  ELSE IF IsNaN(a) \/ IsNaN(b) THEN NaN
  ELSE IF ~IsFinite(a) /\ ~IsFinite(b) THEN (IF a = b THEN a ELSE NaN)
  ELSE IF ~IsFinite(a) THEN a ELSE b

NSub(a, b) == NAdd(a, NNeg(b))

NMul(a, b) ==
  IF IsFinite(a) /\ IsFinite(b)
  THEN LET x == Norm(a[1], b[2])
           y == Norm(b[1], a[2])
       IN  Norm(x[1] * y[1], x[2] * y[2])
  ELSE IF IsNaN(a) \/ IsNaN(b) \/ a[1] = 0 \/ b[1] = 0 THEN NaN
  ELSE <<Sign(a[1]) * Sign(b[1]), 0>>

NDiv(a, b) ==
  IF IsNaN(a) \/ IsNaN(b) THEN NaN
  ELSE IF ~IsFinite(b) THEN (IF IsFinite(a) THEN Zero ELSE NaN)
  ELSE IF ~IsFinite(a) THEN <<a[1] * (IF b[1] < 0 THEN -1 ELSE 1), 0>>
  ELSE IF b[1] = 0 THEN <<Sign(a[1]), 0>>
  ELSE NMul(a, Norm(b[2], b[1]))

\* a < b; false whenever one side is NaN
NLt(a, b) ==
  /\ ~IsNaN(a)
  /\ ~IsNaN(b)
  /\ IF ~IsFinite(a) /\ ~IsFinite(b) THEN a[1] < b[1]
     ELSE a[1] * b[2] < b[1] * a[2]

NGt(a, b) == NLt(b, a)

\* a <= b; false whenever one side is NaN
NLe(a, b) == ~IsNaN(a) /\ ~IsNaN(b) /\ ~NLt(b, a)

MathAbs(a) == <<Abs(a[1]), a[2]>>

\* Math.round: the nearest integer, ties towards +Infinity
MathRound(a) ==
  IF IsFinite(a) THEN <<(2 * a[1] + a[2]) \div (2 * a[2]), 1>> ELSE a

\* Math.round(x * 100) / 100
Round2(x) == NDiv(MathRound(NMul(x, Hundred)), Hundred)

RECURSIVE SumPercentage(_, _)
\* distributions.reduce((sum, d) => sum + d.percentage, 0), from entry i on
SumPercentage(distributions, i) ==
  IF i > Len(distributions) THEN Zero
  ELSE NAdd(distributions[i].percentage, SumPercentage(distributions, i + 1))

\* the mapping result with result[k] = v
Put(result, k, v) ==
  [x \in (DOMAIN result) \cup {k} |-> IF x = k THEN v ELSE result[x]]

EmptyMap == [x \in {} |-> Zero]

(***************************************************************************)
(* Pure calculation functions.  A function that can throw returns          *)
(* [threw |-> TRUE, error |-> message] or [threw |-> FALSE, value |-> v].  *)
(***************************************************************************)
Throw(msg) == [threw |-> TRUE, error |-> msg]

Return(v) == [threw |-> FALSE, value |-> v]

\* calculateProfit without the check of the cost against the income
calculateProfit_NoCostCheck(income, costOfProduction) ==
  IF NLt(income, Zero) THEN Throw("Income cannot be negative")
  ELSE IF NLt(costOfProduction, Zero) THEN Throw("Cost of production cannot be negative")
  ELSE Return(NSub(income, costOfProduction))

calculateProfit(income, costOfProduction) ==
  IF NLt(income, Zero) THEN Throw("Income cannot be negative")
  ELSE IF NLt(costOfProduction, Zero) THEN Throw("Cost of production cannot be negative")
  ELSE IF NGt(costOfProduction, income) THEN Throw("Cost of production cannot exceed income")
  ELSE Return(NSub(income, costOfProduction))

DistributionSumError == "Profit distribution must sum to 100%"

validateProfitDistribution(distributions) ==
  LET total == SumPercentage(distributions, 1)
  IN  IF NGt(MathAbs(NSub(total, Hundred)), Dec(1, 100))
      THEN [isValid |-> FALSE, error |-> DistributionSumError]
      ELSE [isValid |-> TRUE, error |-> "none"]

RECURSIVE distributeLoop_OwnShare(_, _, _, _, _)
\* distributeLoop with the last entry given its own percentage share
distributeLoop_OwnShare(profit, distributions, i, remaining, result) ==
  IF i > Len(distributions) THEN result
  ELSE LET amount == Round2(NDiv(NMul(profit, distributions[i].percentage), Hundred))
       IN  distributeLoop_OwnShare(profit, distributions, i + 1,
                                   NSub(remaining, amount),
                                   Put(result, distributions[i].fundId, amount))

RECURSIVE distributeLoop(_, _, _, _, _)
\* the for loop of distributeProfit from index i on
distributeLoop(profit, distributions, i, remaining, result) ==
  IF i > Len(distributions) THEN result
  ELSE LET fundId == distributions[i].fundId
           percentage == distributions[i].percentage
       IN  IF i = Len(distributions)
           THEN distributeLoop(profit, distributions, i + 1, remaining,
                               Put(result, fundId, Round2(remaining)))
           ELSE LET amount == Round2(NDiv(NMul(profit, percentage), Hundred))
                IN  distributeLoop(profit, distributions, i + 1,
                                   NSub(remaining, amount),
                                   Put(result, fundId, amount))

distributeProfit(profit, distributions) ==
  LET validation == validateProfitDistribution(distributions)
  IN  IF ~validation.isValid THEN Throw(validation.error)
      ELSE Return(distributeLoop(profit, distributions, 1, profit, EmptyMap))

(***************************************************************************)
(* Transactions.  A request is the argument of addTransaction:             *)
(* Omit<Transaction, 'id' | 'createdAt' | 'updatedAt'>.  An absent         *)
(* costOfProduction is undefined, an absent sourceFundId is NoFund.        *)
(* Dates are points on an integer time line; Now is "new Date()".          *)
(***************************************************************************)
Now == 1

NoFund == ""

Request(type, amount, date, costOfProduction, sourceFundId) ==
  [type |-> type, amount |-> amount, date |-> date,
   costOfProduction |-> costOfProduction, sourceFundId |-> sourceFundId]

Invalid(msg) == [isValid |-> FALSE, error |-> msg]

Valid == [isValid |-> TRUE, error |-> "none"]

\* validateTransaction with the balance check off by one: an expense of the
\* whole balance is refused
validateTransaction_NoExactSpend(transaction, fundsArg) ==
  IF NLe(transaction.amount, Zero) THEN Invalid("Amount must be positive")
  ELSE IF transaction.date > Now THEN Invalid("Transaction date cannot be in the future")
  ELSE IF transaction.type = "INCOME" /\ transaction.costOfProduction = undefined
    THEN Invalid("Cost of production is required for income")
  ELSE IF transaction.type = "INCOME" /\ NLt(transaction.costOfProduction, Zero)
    THEN Invalid("Cost of production cannot be negative")
  ELSE IF transaction.type = "INCOME"
          /\ NGt(transaction.costOfProduction, transaction.amount)
    THEN Invalid("Cost of production cannot exceed income")
  ELSE IF transaction.type = "EXPENSE" /\ transaction.sourceFundId = NoFund
    THEN Invalid("Source fund is required for expenses")
  ELSE IF transaction.type = "EXPENSE" /\ transaction.sourceFundId \notin DOMAIN fundsArg
    THEN Invalid("Selected fund does not exist")
  ELSE IF transaction.type = "EXPENSE"
          /\ NLe(fundsArg[transaction.sourceFundId].currentBalance, transaction.amount)
    THEN Invalid("Insufficient funds in selected account")
  ELSE Valid

\* validateTransaction with the date rule ahead of the amount rule
validateTransaction_DateFirst(transaction, fundsArg) ==
  IF transaction.date > Now THEN Invalid("Transaction date cannot be in the future")
  ELSE IF NLe(transaction.amount, Zero) THEN Invalid("Amount must be positive")
  ELSE IF transaction.type = "INCOME" /\ transaction.costOfProduction = undefined
    THEN Invalid("Cost of production is required for income")
  ELSE IF transaction.type = "INCOME" /\ NLt(transaction.costOfProduction, Zero)
    THEN Invalid("Cost of production cannot be negative")
  ELSE IF transaction.type = "INCOME"
          /\ NGt(transaction.costOfProduction, transaction.amount)
    THEN Invalid("Cost of production cannot exceed income")
  ELSE IF transaction.type = "INCOME"
          /\ calculateProfit(transaction.amount, transaction.costOfProduction).threw
    \* an exception of calculateProfit leaves validateTransaction; the caller
    \* sees its message either way
    THEN Invalid(calculateProfit(transaction.amount, transaction.costOfProduction).error)
  ELSE IF transaction.type = "INCOME"
          /\ NLt(calculateProfit(transaction.amount, transaction.costOfProduction).value, Zero)
    THEN Invalid("Profit must be non-negative")
  ELSE IF transaction.type = "EXPENSE" /\ transaction.sourceFundId = NoFund
    THEN Invalid("Source fund is required for expenses")
  ELSE IF transaction.type = "EXPENSE" /\ transaction.sourceFundId \notin DOMAIN fundsArg
    THEN Invalid("Selected fund does not exist")
  ELSE IF transaction.type = "EXPENSE"
          /\ NLt(fundsArg[transaction.sourceFundId].currentBalance, transaction.amount)
    THEN Invalid("Insufficient funds in selected account")
  ELSE Valid

\* validateTransaction that refuses an income whose cost equals its amount
validateTransaction_NoZeroProfit(transaction, fundsArg) ==
  IF NLe(transaction.amount, Zero) THEN Invalid("Amount must be positive")
  ELSE IF transaction.date > Now THEN Invalid("Transaction date cannot be in the future")
  ELSE IF transaction.type = "INCOME" /\ transaction.costOfProduction = undefined
    THEN Invalid("Cost of production is required for income")
  ELSE IF transaction.type = "INCOME" /\ NLt(transaction.costOfProduction, Zero)
    THEN Invalid("Cost of production cannot be negative")
  ELSE IF transaction.type = "INCOME"
          /\ ~NLt(transaction.costOfProduction, transaction.amount)
    THEN Invalid("Cost of production cannot exceed income")
  ELSE IF transaction.type = "INCOME"
          /\ calculateProfit(transaction.amount, transaction.costOfProduction).threw
    \* an exception of calculateProfit leaves validateTransaction; the caller
    \* sees its message either way
    THEN Invalid(calculateProfit(transaction.amount, transaction.costOfProduction).error)
  ELSE IF transaction.type = "INCOME"
          /\ NLt(calculateProfit(transaction.amount, transaction.costOfProduction).value, Zero)
    THEN Invalid("Profit must be non-negative")
  ELSE IF transaction.type = "EXPENSE" /\ transaction.sourceFundId = NoFund
    THEN Invalid("Source fund is required for expenses")
  ELSE IF transaction.type = "EXPENSE" /\ transaction.sourceFundId \notin DOMAIN fundsArg
    THEN Invalid("Selected fund does not exist")
  ELSE IF transaction.type = "EXPENSE"
          /\ NLt(fundsArg[transaction.sourceFundId].currentBalance, transaction.amount)
    THEN Invalid("Insufficient funds in selected account")
  ELSE Valid

validateTransaction(transaction, fundsArg) ==
  IF NLe(transaction.amount, Zero) THEN Invalid("Amount must be positive")
  ELSE IF transaction.date > Now THEN Invalid("Transaction date cannot be in the future")
  ELSE IF transaction.type = "INCOME" /\ transaction.costOfProduction = undefined
    THEN Invalid("Cost of production is required for income")
  ELSE IF transaction.type = "INCOME" /\ NLt(transaction.costOfProduction, Zero)
    THEN Invalid("Cost of production cannot be negative")
  ELSE IF transaction.type = "INCOME"
          /\ NGt(transaction.costOfProduction, transaction.amount)
    THEN Invalid("Cost of production cannot exceed income")
  ELSE IF transaction.type = "INCOME"
          /\ calculateProfit(transaction.amount, transaction.costOfProduction).threw
    \* an exception of calculateProfit leaves validateTransaction; the caller
    \* sees its message either way
    THEN Invalid(calculateProfit(transaction.amount, transaction.costOfProduction).error)
  ELSE IF transaction.type = "INCOME"
          /\ NLt(calculateProfit(transaction.amount, transaction.costOfProduction).value, Zero)
    THEN Invalid("Profit must be non-negative")
  ELSE IF transaction.type = "EXPENSE" /\ transaction.sourceFundId = NoFund
    THEN Invalid("Source fund is required for expenses")
  ELSE IF transaction.type = "EXPENSE" /\ transaction.sourceFundId \notin DOMAIN fundsArg
    THEN Invalid("Selected fund does not exist")
  ELSE IF transaction.type = "EXPENSE"
          /\ NLt(fundsArg[transaction.sourceFundId].currentBalance, transaction.amount)
    THEN Invalid("Insufficient funds in selected account")
  ELSE Valid

\* applyDistributions that credits the balance and forgets lifetimeInflow
applyDistributions_NoInflow(fundsArg, distributionsMap) ==
  [f \in DOMAIN fundsArg |->
     IF f \in DOMAIN distributionsMap
     THEN [fundsArg[f] EXCEPT !.currentBalance = NAdd(@, distributionsMap[f])]
     ELSE fundsArg[f]]

\* the INCOME branch of applyTransactionToFunds, given the allocation
applyDistributions(fundsArg, distributionsMap) ==
  [f \in DOMAIN fundsArg |->
     IF f \in DOMAIN distributionsMap
     THEN [fundsArg[f] EXCEPT
             !.currentBalance = NAdd(@, distributionsMap[f]),
             !.lifetimeInflow = NAdd(@, distributionsMap[f])]
     ELSE fundsArg[f]]

\* applyExpense that debits the balance and forgets lifetimeOutflow
applyExpense_NoOutflow(fundsArg, transaction) ==
  IF transaction.sourceFundId # NoFund /\ transaction.sourceFundId \in DOMAIN fundsArg
  THEN [fundsArg EXCEPT
          ![transaction.sourceFundId].currentBalance = NSub(@, transaction.amount)]
  ELSE fundsArg

\* the EXPENSE branch of applyTransactionToFunds
applyExpense(fundsArg, transaction) ==
  IF transaction.sourceFundId # NoFund /\ transaction.sourceFundId \in DOMAIN fundsArg
  THEN [fundsArg EXCEPT
          ![transaction.sourceFundId].currentBalance = NSub(@, transaction.amount),
          ![transaction.sourceFundId].lifetimeOutflow = NAdd(@, transaction.amount)]
  ELSE fundsArg

\* applyTransactionToFunds that distributes the revenue instead of the profit
applyTransactionToFunds_Revenue(fundsArg, transaction, distributions) ==
  IF transaction.type = "INCOME"
  THEN LET profit == calculateProfit(transaction.amount, transaction.costOfProduction)
       IN  IF profit.threw THEN profit
           ELSE LET distributionsMap == distributeProfit(transaction.amount, distributions)
                IN  IF distributionsMap.threw THEN distributionsMap
                    ELSE Return(applyDistributions(fundsArg, distributionsMap.value))
  ELSE Return(applyExpense(fundsArg, transaction))

applyTransactionToFunds(fundsArg, transaction, distributions) ==
  IF transaction.type = "INCOME"
  THEN LET profit == calculateProfit(transaction.amount, transaction.costOfProduction)
       IN  IF profit.threw THEN profit
           ELSE LET distributionsMap == distributeProfit(profit.value, distributions)
                IN  IF distributionsMap.threw THEN distributionsMap
                    ELSE Return(applyDistributions(fundsArg, distributionsMap.value))
  ELSE Return(applyExpense(fundsArg, transaction))

(***************************************************************************)
(* The store (useFinanceStore)                                             *)
(***************************************************************************)
VARIABLES
  funds,               \* Record<FundId, Fund>
  transactions,        \* Transaction[]
  profitDistribution,  \* ProfitDistribution[]
  taxEnabled,          \* boolean
  uuidCount,           \* number of ids uuidv4() has handed to createFund
  steps,               \* number of store actions that have completed
  call,                \* the last direct call of a calculation function
  last,                \* the last store action called and how it ended
  budgets,             \* Budget[]
  localStorage         \* the browser's localStorage: key -> text

vars ==
  <<funds, transactions, profitDistribution, taxEnabled, uuidCount, steps, call, last,
    budgets, localStorage>>

storeVars ==
  <<funds, transactions, profitDistribution, taxEnabled, uuidCount, steps, last,
    budgets, localStorage>>

\* a fund's money fields; its name, description and colour are metadata the
\* engine never reads
NewFund ==
  [currentBalance |-> Zero, lifetimeInflow |-> Zero, lifetimeOutflow |-> Zero]

DEFAULT_FUNDS ==
  [f \in {"business-savings", "reinvestment", "personal", "emergency", "baby",
          "general-savings", "misc", "taxes"} |-> NewFund]

Entry(fundId, percentage) == [fundId |-> fundId, percentage |-> percentage]

DEFAULT_DISTRIBUTION ==
  << Entry("business-savings", Dec(20, 1)), Entry("reinvestment", Dec(15, 1)),
     Entry("personal", Dec(25, 1)), Entry("emergency", Dec(10, 1)),
     Entry("baby", Dec(5, 1)), Entry("general-savings", Dec(10, 1)),
     Entry("misc", Dec(10, 1)), Entry("taxes", Dec(5, 1)) >>

\* {...a, ...b}
Spread(a, b) ==
  [k \in (DOMAIN a) \cup (DOMAIN b) |-> IF k \in DOMAIN b THEN b[k] ELSE a[k]]

\* array.filter(d => d.fundId !== fundId)
RECURSIVE FilterOut(_, _)
FilterOut(distributions, fundId) ==
  IF distributions = << >> THEN << >>
  ELSE IF Head(distributions).fundId = fundId
       THEN FilterOut(Tail(distributions), fundId)
       ELSE <<Head(distributions)>> \o FilterOut(Tail(distributions), fundId)

\* array.map(d => ({...d, percentage: (d.percentage / total) * factor}))
Scale(distributions, total, factor) ==
  [i \in 1..Len(distributions) |->
     [distributions[i] EXCEPT
        !.percentage = NMul(NDiv(distributions[i].percentage, total), factor)]]

Outcome(op, error) == [op |-> op, error |-> error]

NoCall == [fn |-> "none"]

(***************************************************************************)
(* JSON texts and the values JSON.parse gives                              *)
(***************************************************************************)
JNull == [t |-> "null"]

JUndefined == [t |-> "undefined"]

JNumber(x) == [t |-> "number", num |-> x]

JString(str) == [t |-> "string", str |-> str]

JBoolean(b) == [t |-> "boolean", bool |-> b]

\* the ISO-8601 string JSON.stringify writes for the Date of timestamp d
JDate(d) == [t |-> "string", iso |-> d]

JObject(fields) == [t |-> "object", fields |-> fields]

JArray(items) == [t |-> "array", items |-> items]

\* new Date(value)
NewDate(value) == [t |-> "Date", of |-> value]

\* a text: the JSON text of a value, a text that is no JSON, the empty string
JSONText(value) == [text |-> "json", value |-> value]

NotJSON == [text |-> "garbage"]

EmptyText == [text |-> "empty"]

JSONparse(text) ==
  IF text.text = "json" THEN Return(text.value) ELSE Throw("SyntaxError")

\* value.key
Get(value, key) ==
  IF value.t \in {"null", "undefined"} THEN Throw("TypeError")
  ELSE IF value.t = "object" /\ key \in DOMAIN value.fields
  THEN Return(value.fields[key])
  ELSE Return(JUndefined)

\* !value
Falsy(value) ==
  \/ value.t \in {"null", "undefined"}
  \/ value.t = "number" /\ (value.num = Zero \/ IsNaN(value.num))
  \/ value = JString("")
  \/ value = JBoolean(FALSE)

NoFields == [k \in {} |-> JNull]

\* what JSON.stringify writes for a number: null for NaN and the infinities
numberJSON(x) == IF IsFinite(x) THEN JNumber(x) ELSE JNull

\* a field JSON.stringify leaves out when its value is undefined
optionalJSON(key, present, value) ==
  IF present THEN [k \in {key} |-> value] ELSE NoFields

fundJSON(fund) ==
  JObject([currentBalance |-> numberJSON(fund.currentBalance),
           lifetimeInflow |-> numberJSON(fund.lifetimeInflow),
           lifetimeOutflow |-> numberJSON(fund.lifetimeOutflow),
           createdAt |-> JDate(Now), updatedAt |-> JDate(Now)])

transactionJSON(transaction) ==
  JObject([type |-> JString(transaction.type),
           amount |-> numberJSON(transaction.amount),
           date |-> JDate(transaction.date),
           createdAt |-> JDate(Now), updatedAt |-> JDate(Now)]
          @@ optionalJSON("costOfProduction",
                          transaction.costOfProduction # undefined,
                          numberJSON(transaction.costOfProduction))
          @@ optionalJSON("sourceFundId", transaction.sourceFundId # NoFund,
                          JString(transaction.sourceFundId))
          @@ optionalJSON("profit", transaction.profit # undefined,
                          numberJSON(transaction.profit)))

distributionJSON(d) ==
  JObject([fundId |-> JString(d.fundId), percentage |-> numberJSON(d.percentage)])

budgetJSON(budget) ==
  JObject([id |-> JString(budget.id),
           currentAmount |-> numberJSON(budget.currentAmount),
           status |-> JString(budget.status),
           createdAt |-> JDate(Now), updatedAt |-> JDate(Now)])

\* JSON.stringify of the store's data fields
stateJSON(f, t, p, e, b) ==
  JObject([funds |-> JObject([id \in DOMAIN f |-> fundJSON(f[id])]),
           transactions |-> JArray([i \in 1..Len(t) |-> transactionJSON(t[i])]),
           profitDistribution |-> JArray([i \in 1..Len(p) |-> distributionJSON(p[i])]),
           taxEnabled |-> JBoolean(e),
           budgets |-> JArray([i \in 1..Len(b) |-> budgetJSON(b[i])]),
           lastUpdated |-> JDate(Now)])

(***************************************************************************)
(* The persist middleware of the store                                     *)
(***************************************************************************)
PERSIST_NAME == "finance-tracker-storage"

NoItems == [k \in {} |-> EmptyText]

\* localStorage.setItem(key, text)
setItem(storage, key, text) ==
  [k \in (DOMAIN storage) \cup {key} |-> IF k = key THEN text ELSE storage[k]]

\* localStorage.removeItem(key)
removeItem(storage, key) == [k \in (DOMAIN storage) \ {key} |-> storage[k]]

\* the middleware's write after every set(): the partialized state and the
\* middleware's version number under the store's name
persist ==
  localStorage' =
    setItem(localStorage, PERSIST_NAME,
            JSONText(JObject(
              [state |-> stateJSON(funds', transactions', profitDistribution',
                                   taxEnabled', budgets'),
               version |-> JNumber(Zero)])))

(***************************************************************************)
(* Bounds and the inputs the actions draw from                             *)
(***************************************************************************)
\* store actions that complete in one run (a call that throws is not counted)
MaxSteps == 3

\* the ids uuidv4() returns, in the order it returns them
UuidPool == <<"uuid-1", "uuid-2", "uuid-3", "uuid-4", "uuid-5">>

\* a store action completes: one more step of the run
Step == steps < MaxSteps /\ steps' = steps + 1

Income(amount, cost) == Request("INCOME", amount, Now, cost, NoFund)

Expense(amount, fundId) == Request("EXPENSE", amount, Now, undefined, fundId)

Requests ==
  { Income(Dec(1, 1), Zero),            \* profit 1.00
    Income(Dec(106, 100), Dec(1, 1)),   \* profit 0.06
    Income(Dec(5, 1000), Zero),         \* profit 0.005, below one cent
    Income(Dec(1, 1), Dec(1, 1)),       \* profit 0
    Income(Dec(1, 1), Dec(2, 1)),       \* cost above the income
    Income(Dec(1, 1), Dec(-1, 1)),      \* negative cost
    Income(Dec(1, 1), undefined),       \* cost missing
    Income(Zero, Zero),                 \* amount not positive
    Request("INCOME", Dec(1, 1), Now + 1, Zero, NoFund),
    Expense(Dec(25, 100), "personal"),
    Expense(Dec(30, 100), "personal"),
    Expense(Dec(25, 100), NoFund),
    Expense(Dec(25, 100), "ghost"),
    Expense(Dec(-1, 1), "personal"),
    Request("EXPENSE", Dec(25, 100), Now + 1, undefined, "personal") }

\* fund ids passed to updateFund and deleteFund
FundArgs == {"personal", "taxes", "uuid-1", "ghost"}

UpdateArgs == {"taxes"}

\* Partial<Fund> values passed to updateFund, restricted to the money fields:
\* the first is an update of metadata alone, such as the funds page's rename
FundUpdates == { << >>, [currentBalance |-> Dec(1, 1)] }

\* fundData passed to createFund, restricted to the money fields (its type
\* leaves them out)
FundData == { << >> }

\* lists passed to updateProfitDistribution
Distributions ==
  { << Entry("personal", Dec(50, 1)), Entry("emergency", Dec(50, 1)) >>,
    << Entry("personal", Dec(60, 1)), Entry("uuid-1", Dec(30, 1)) >>  }

(***************************************************************************)
(* Store actions                                                           *)
(***************************************************************************)
Init ==
  /\ funds = DEFAULT_FUNDS
  /\ transactions = << >>
  /\ profitDistribution = DEFAULT_DISTRIBUTION
  /\ taxEnabled = FALSE
  /\ uuidCount = 0
  /\ steps = 0
  /\ call = NoCall
  /\ last = Outcome("init", "none")
  /\ budgets = << >>
  /\ localStorage = NoItems

\* what addTransaction does with transactionData: the error it throws, or the
\* transaction it records and the funds it sets
addTransactionResult(transactionData, fundsArg, distributions) ==
  LET validation == validateTransaction(transactionData, fundsArg)
  IN  IF ~validation.isValid THEN Throw(validation.error)
      ELSE
        LET profit == IF transactionData.type = "INCOME"
                      THEN calculateProfit(transactionData.amount,
                                           transactionData.costOfProduction)
                      ELSE Return(undefined)
        IN  IF profit.threw THEN profit
            ELSE
              LET transaction == Spread(transactionData, [profit |-> profit.value])
                  updatedFunds ==
                    applyTransactionToFunds(fundsArg, transaction, distributions)
              IN  IF updatedFunds.threw THEN updatedFunds
                  ELSE Return([transaction |-> transaction,
                               funds |-> updatedFunds.value])

\* addTransaction that records the transaction before applying it to the
\* funds: a refusal of the allocator leaves the record in the list
addTransaction_RecordFirst(transactionData) ==
  LET validation == validateTransaction(transactionData, funds)
      r == addTransactionResult(transactionData, funds, profitDistribution)
  IN  IF ~validation.isValid
      THEN /\ last' = Outcome("addTransaction", r.error)
           /\ UNCHANGED <<funds, transactions, profitDistribution, taxEnabled, uuidCount, steps, call, budgets, localStorage>>
      ELSE IF r.threw
      THEN /\ Step
           /\ transactions' = Append(transactions, Spread(transactionData, [profit |-> undefined]))
           /\ last' = Outcome("addTransaction", r.error)
           /\ UNCHANGED <<funds, profitDistribution, taxEnabled, uuidCount, call, budgets>>
           /\ persist
      ELSE /\ Step
           /\ funds' = r.value.funds
           /\ transactions' = Append(transactions, r.value.transaction)
           /\ last' = Outcome("addTransaction", "none")
           /\ UNCHANGED <<profitDistribution, taxEnabled, uuidCount, call, budgets>>
           /\ persist

\* addTransaction that puts the new record at the head of the list
addTransaction_Prepend(transactionData) ==
  LET r == addTransactionResult(transactionData, funds, profitDistribution)
  IN  IF r.threw
      THEN /\ last' = Outcome("addTransaction", r.error)
           /\ UNCHANGED <<funds, transactions, profitDistribution, taxEnabled, uuidCount, steps, call, budgets, localStorage>>
      ELSE /\ Step
           /\ funds' = r.value.funds
           /\ transactions' = << r.value.transaction >> \o transactions
           /\ last' = Outcome("addTransaction", "none")
           /\ UNCHANGED <<profitDistribution, taxEnabled, uuidCount, call, budgets>>
           /\ persist

addTransaction(transactionData) ==
  LET r == addTransactionResult(transactionData, funds, profitDistribution)
  IN  IF r.threw
      THEN /\ last' = Outcome("addTransaction", r.error)
           /\ UNCHANGED <<funds, transactions, profitDistribution, taxEnabled, uuidCount, steps, call, budgets, localStorage>>
      ELSE /\ Step
           /\ funds' = r.value.funds
           /\ transactions' = Append(transactions, r.value.transaction)
           /\ last' = Outcome("addTransaction", "none")
           /\ UNCHANGED <<profitDistribution, taxEnabled, uuidCount, call, budgets>>
           /\ persist

updateFund(fundId, updates) ==
  /\ fundId \in DOMAIN funds
  /\ Step
  /\ funds' = [funds EXCEPT ![fundId] = Spread(funds[fundId], updates)]
  /\ last' = Outcome("updateFund", "none")
  /\ UNCHANGED <<transactions, profitDistribution, taxEnabled, uuidCount, call, budgets>>
  /\ persist

\* createFund whose id generator returns the same id every time
createFund_SameId(fundData) ==
  /\ Step
  /\ LET id == UuidPool[1]
         newFund == Spread(NewFund, fundData)
     IN  funds' = (id :> newFund) @@ funds
  /\ uuidCount' = uuidCount + 1
  /\ last' = Outcome("createFund", "none")
  /\ UNCHANGED <<transactions, profitDistribution, taxEnabled, call, budgets>>
  /\ persist

createFund(fundData) ==
  /\ Step
  /\ LET id == UuidPool[uuidCount + 1]
         newFund == Spread(NewFund, fundData)
     IN  funds' = (id :> newFund) @@ funds
  /\ uuidCount' = uuidCount + 1
  /\ last' = Outcome("createFund", "none")
  /\ UNCHANGED <<transactions, profitDistribution, taxEnabled, call, budgets>>
  /\ persist

\* deleteFund without the search of the transaction list for the fund
deleteFund_NoReferenceCheck(fundId) ==
  IF fundId \notin DOMAIN funds
  THEN /\ last' = Outcome("deleteFund", "TypeError")
       /\ UNCHANGED <<funds, transactions, profitDistribution, taxEnabled, uuidCount, steps, call, budgets, localStorage>>
  ELSE IF NGt(funds[fundId].currentBalance, Zero)
  THEN /\ last' = Outcome("deleteFund", "Cannot delete fund with remaining balance")
       /\ UNCHANGED <<funds, transactions, profitDistribution, taxEnabled, uuidCount, steps, call, budgets, localStorage>>
  ELSE /\ Step
       /\ funds' = [f \in (DOMAIN funds) \ {fundId} |-> funds[f]]
       /\ profitDistribution' = FilterOut(profitDistribution, fundId)
       /\ last' = Outcome("deleteFund", "none")
       /\ UNCHANGED <<transactions, taxEnabled, uuidCount, call, budgets>>
       /\ persist

deleteFund(fundId) ==
  IF fundId \notin DOMAIN funds
  THEN \* funds[fundId] is undefined: reading its currentBalance throws
       /\ last' = Outcome("deleteFund", "TypeError")
       /\ UNCHANGED <<funds, transactions, profitDistribution, taxEnabled, uuidCount, steps, call, budgets, localStorage>>
  ELSE IF NGt(funds[fundId].currentBalance, Zero)
  THEN /\ last' = Outcome("deleteFund", "Cannot delete fund with remaining balance")
       /\ UNCHANGED <<funds, transactions, profitDistribution, taxEnabled, uuidCount, steps, call, budgets, localStorage>>
  ELSE IF \E i \in 1..Len(transactions) :
            transactions[i].type = "EXPENSE" /\ transactions[i].sourceFundId = fundId
  THEN /\ last' = Outcome("deleteFund", "Cannot delete fund referenced in transactions")
       /\ UNCHANGED <<funds, transactions, profitDistribution, taxEnabled, uuidCount, steps, call, budgets, localStorage>>
  ELSE /\ Step
       /\ funds' = [f \in (DOMAIN funds) \ {fundId} |-> funds[f]]
       /\ profitDistribution' = FilterOut(profitDistribution, fundId)
       /\ last' = Outcome("deleteFund", "none")
       /\ UNCHANGED <<transactions, taxEnabled, uuidCount, call, budgets>>
       /\ persist

updateProfitDistribution(distributions) ==
  /\ Step
  /\ profitDistribution' = distributions
  /\ last' = Outcome("updateProfitDistribution", "none")
  /\ UNCHANGED <<funds, transactions, taxEnabled, uuidCount, call, budgets>>
  /\ persist

\* toggleTaxFund that appends the tax entry without making room for it
toggleTaxFundResult_NoRescale(enabled, distributions) ==
  IF enabled
  THEN distributions \o << Entry("taxes", Dec(5, 1)) >>
  ELSE LET currentDistribution == FilterOut(distributions, "taxes")
           totalWithoutTaxes == SumPercentage(currentDistribution, 1)
       IN  Scale(currentDistribution, totalWithoutTaxes, Hundred)

\* toggleTaxFund that drops the tax entry and leaves the rest as it is
toggleTaxFundResult_KeepScale(enabled, distributions) ==
  IF enabled
  THEN LET totalWithoutTaxes == SumPercentage(distributions, 1)
           scaledDistribution == Scale(distributions, totalWithoutTaxes, Dec(95, 1))
       IN  scaledDistribution \o << Entry("taxes", Dec(5, 1)) >>
  ELSE FilterOut(distributions, "taxes")

toggleTaxFundResult(enabled, distributions) ==
  IF enabled
  THEN LET totalWithoutTaxes == SumPercentage(distributions, 1)
           scaledDistribution == Scale(distributions, totalWithoutTaxes, Dec(95, 1))
       IN  scaledDistribution \o << Entry("taxes", Dec(5, 1)) >>
  ELSE LET currentDistribution == FilterOut(distributions, "taxes")
           totalWithoutTaxes == SumPercentage(currentDistribution, 1)
       IN  Scale(currentDistribution, totalWithoutTaxes, Hundred)

toggleTaxFund(enabled) ==
  /\ Step
  /\ taxEnabled' = enabled
  /\ profitDistribution' = toggleTaxFundResult(enabled, profitDistribution)
  /\ last' = Outcome("toggleTaxFund", "none")
  /\ UNCHANGED <<funds, transactions, uuidCount, call, budgets>>
  /\ persist

\* resetToDefaults that zeroes the funds of the collection and keeps its keys
resetToDefaults_ZeroFunds ==
  /\ Step
  /\ funds' = [f \in DOMAIN funds |-> NewFund]
  /\ transactions' = << >>
  /\ profitDistribution' = DEFAULT_DISTRIBUTION
  /\ taxEnabled' = FALSE
  /\ last' = Outcome("resetToDefaults", "none")
  /\ budgets' = << >>
  /\ UNCHANGED <<uuidCount, call>>
  /\ persist

resetToDefaults ==
  /\ Step
  /\ funds' = DEFAULT_FUNDS
  /\ transactions' = << >>
  /\ profitDistribution' = DEFAULT_DISTRIBUTION
  /\ taxEnabled' = FALSE
  /\ last' = Outcome("resetToDefaults", "none")
  /\ budgets' = << >>
  /\ UNCHANGED <<uuidCount, call>>
  /\ persist

Next ==
  \/ \E transactionData \in Requests : addTransaction(transactionData)
  \/ \E fundId \in UpdateArgs, updates \in FundUpdates : updateFund(fundId, updates)
  \/ \E fundData \in FundData : createFund(fundData)
  \/ \E fundId \in FundArgs : deleteFund(fundId)
  \/ \E distributions \in Distributions : updateProfitDistribution(distributions)
  \/ \E enabled \in BOOLEAN : toggleTaxFund(enabled)
  \/ resetToDefaults

Spec == Init /\ [][Next]_vars

(***************************************************************************)
(* The calculation functions called directly (lib/finance/calculations),   *)
(* on arguments drawn from bounded sets, the store left in its initial     *)
(* state.                                                                  *)
(***************************************************************************)
\* the lists of length n over S without repetition
RECURSIVE Arrangements(_, _)
Arrangements(S, n) ==
  IF n = 0 THEN { << >> }
  ELSE UNION { { <<x>> \o rest : rest \in Arrangements(S \ {x}, n - 1) } : x \in S }

\* every ordering of the entries of the list
Orderings(distributions) ==
  { [i \in 1..Len(distributions) |-> distributions[o[i]]] :
      o \in Arrangements(1..Len(distributions), Len(distributions)) }

CalcLists ==
  UNION { Orderings(d) :
    d \in { << Entry("A", Dec(50, 1)), Entry("B", Dec(50, 1)) >>,
            << Entry("A", Dec(33, 1)), Entry("B", Dec(33, 1)), Entry("C", Dec(34, 1)) >>,
            << Entry("A", Dec(30, 1)), Entry("B", Dec(30, 1)), Entry("C", Dec(30, 1)),
               Entry("D", Dec(10, 1)) >>,
            << Entry("A", Dec(60, 1)), Entry("B", Dec(3999, 100)) >>,
            << Entry("A", Dec(100005, 1000)), Entry("B", Dec(1, 1000)) >>,
            << Entry("A", Dec(100, 1)) >>,
            << Entry("A", Dec(60, 1)), Entry("B", Dec(30, 1)) >>,
            << >> } }
  \cup { DEFAULT_DISTRIBUTION, toggleTaxFundResult(TRUE, DEFAULT_DISTRIBUTION) }

CalcProfits ==
  { Zero, Dec(5, 1000), Dec(1, 100), Dec(5, 100), Dec(6, 100), Dec(1, 1),
    Dec(6667, 100), Dec(100, 1), Dec(600, 1) }

InitCalc ==
  /\ funds = DEFAULT_FUNDS
  /\ transactions = << >>
  /\ profitDistribution = DEFAULT_DISTRIBUTION
  /\ taxEnabled = FALSE
  /\ uuidCount = 0
  /\ steps = 0
  /\ last = Outcome("init", "none")
  /\ call = NoCall
  /\ budgets = << >>
  /\ localStorage = NoItems

CallDistributeProfit(profit, distributions) ==
  /\ call' = [fn |-> "distributeProfit", profit |-> profit,
              distributions |-> distributions,
              result |-> distributeProfit(profit, distributions)]
  /\ UNCHANGED storeVars

\* arguments of direct calls of validateTransaction and calculateProfit
CalcTypes == {"INCOME", "EXPENSE"}

CalcAmounts == { Dec(-1, 1), Zero, Dec(1, 1), NaN }

CalcDates == { Now, Now + 1 }

CalcCosts == { undefined, Dec(-1, 1), Zero, Dec(1, 1), Dec(2, 1), NaN }

CalcSources == { NoFund, "personal", "ghost" }

CalcIncomes == { Dec(-1, 1), Zero, Dec(1, 2), Dec(1, 1), Dec(2, 1), NaN }

CalcRequests ==
  { Request(t, a, d, c, s) :
      t \in CalcTypes, a \in CalcAmounts, d \in CalcDates, c \in CalcCosts,
      s \in CalcSources }

\* fund collections: one where 'personal' holds 1.00, and none
CalcFunds ==
  { [DEFAULT_FUNDS EXCEPT !["personal"] =
       [currentBalance |-> Dec(1, 1), lifetimeInflow |-> Dec(1, 1),
        lifetimeOutflow |-> Zero]],
    [f \in {} |-> NewFund] }

CallValidateTransaction(transaction, fundsArg) ==
  /\ call' = [fn |-> "validateTransaction", transaction |-> transaction,
              funds |-> fundsArg,
              result |-> validateTransaction(transaction, fundsArg)]
  /\ UNCHANGED storeVars

CallCalculateProfit(income, costOfProduction) ==
  /\ call' = [fn |-> "calculateProfit", income |-> income,
              costOfProduction |-> costOfProduction,
              result |-> calculateProfit(income, costOfProduction)]
  /\ UNCHANGED storeVars

NextCalc ==
  \/ \E profit \in CalcProfits, distributions \in CalcLists :
       CallDistributeProfit(profit, distributions)

SpecCalc == InitCalc /\ [][NextCalc]_vars

\* direct calls of validateTransaction and calculateProfit
NextValidate ==
  \/ \E transaction \in CalcRequests, fundsArg \in CalcFunds :
       CallValidateTransaction(transaction, fundsArg)
  \/ \E income \in CalcIncomes, costOfProduction \in CalcCosts \ {undefined} :
       CallCalculateProfit(income, costOfProduction)

SpecValidate == InitCalc /\ [][NextValidate]_vars

(***************************************************************************)
(* The tax toggle on the lists updateProfitDistribution can store          *)
(***************************************************************************)
ToggleLists ==
  { << Entry("A", Dec(50, 1)), Entry("B", Dec(50, 1)) >>,
    << Entry("A", Dec(60, 1)), Entry("B", Dec(30, 1)) >>,
    << Entry("A", Dec(20, 1)), Entry("B", Dec(30, 1)), Entry("C", Dec(50, 1)) >>,
    << Entry("A", Dec(100, 1)) >>,
    << Entry("A", Dec(25, 1)), Entry("B", Dec(75, 1)) >>,
    << Entry("A", Dec(33, 1)), Entry("B", Dec(33, 1)), Entry("C", Dec(34, 1)) >>,
    << Entry("A", Dec(10, 1)), Entry("B", Dec(20, 1)), Entry("C", Dec(30, 1)),
       Entry("D", Dec(40, 1)) >>,
    << Entry("A", Dec(50, 1)), Entry("taxes", Dec(50, 1)) >>,
    << Entry("A", Zero), Entry("B", Zero), Entry("taxes", Dec(100, 1)) >>,
    << Entry("A", Zero), Entry("B", Zero) >>,
    << Entry("taxes", Dec(100, 1)) >>,
    << >> }

NextToggle ==
  \/ \E distributions \in ToggleLists : updateProfitDistribution(distributions)
  \/ \E enabled \in BOOLEAN : toggleTaxFund(enabled)

SpecToggle == Init /\ [][NextToggle]_vars

(***************************************************************************)
(* Budgets                                                                 *)
(***************************************************************************)
\* a budget's engine fields; its name, target and allocations are metadata
NewBudget == [currentAmount |-> Zero, status |-> "ACTIVE"]

\* budgetData passed to addBudget, restricted to the engine fields (its type
\* leaves them out)
BudgetData == { << >> }

BudgetArgs == {"uuid-1", "ghost"}

BudgetUpdates == { [status |-> "COMPLETED"] }

addBudget(budgetData) ==
  /\ Step
  /\ LET newBudget ==
           Spread([id |-> UuidPool[uuidCount + 1]] @@ NewBudget, budgetData)
     IN  budgets' = Append(budgets, newBudget)
  /\ uuidCount' = uuidCount + 1
  /\ last' = Outcome("addBudget", "none")
  /\ UNCHANGED <<funds, transactions, profitDistribution, taxEnabled, call>>
  /\ persist

updateBudget(budgetId, updates) ==
  /\ Step
  /\ budgets' = [i \in 1..Len(budgets) |->
                   IF budgets[i].id = budgetId
                   THEN Spread(budgets[i], updates)
                   ELSE budgets[i]]
  /\ last' = Outcome("updateBudget", "none")
  /\ UNCHANGED <<funds, transactions, profitDistribution, taxEnabled, uuidCount, call>>
  /\ persist

deleteBudget(budgetId) ==
  /\ Step
  /\ budgets' = SelectSeq(budgets, LAMBDA b : b.id # budgetId)
  /\ last' = Outcome("deleteBudget", "none")
  /\ UNCHANGED <<funds, transactions, profitDistribution, taxEnabled, uuidCount, call>>
  /\ persist

(***************************************************************************)
(* The storage module (lib/storage/localStorage)                           *)
(***************************************************************************)
STORAGE_KEY == "finance_tracker_data"

CURRENT_VERSION == 1

\* the entries Object.entries visits, or the items array.map visits
itemsOf(value) ==
  IF value.t = "object" THEN value.fields
  ELSE IF value.t = "array" THEN value.items
  ELSE NoFields

\* { ...item, key: new Date(item.key) } for every key of dates
withDates(item, dates) ==
  JObject([k \in dates |-> NewDate(Get(item, k).value)]
          @@ (IF item.t = "object" THEN item.fields ELSE NoFields))

\* the conversion of every item of a collection; reading a date of a null
\* item throws
reviveAll(collection, dates) ==
  IF \E k \in DOMAIN collection : collection[k].t \in {"null", "undefined"}
  THEN Throw("TypeError")
  ELSE Return([k \in DOMAIN collection |-> withDates(collection[k], dates)])

\* the try block of loadFromStorage
loadFromStorageTry(storage) ==
  IF STORAGE_KEY \notin DOMAIN storage \/ storage[STORAGE_KEY] = EmptyText
  THEN Return(JNull)
  ELSE
  LET parsed == JSONparse(storage[STORAGE_KEY])
  IN  IF parsed.threw THEN parsed ELSE
  LET data == parsed.value
      version == Get(data, "version")
  IN  IF version.threw THEN version
      ELSE IF version.value # JNumber(Dec(CURRENT_VERSION, 1)) THEN Return(JNull)
      ELSE
  LET state == Get(data, "state").value
      lastUpdated == Get(state, "lastUpdated")
  IN  IF lastUpdated.threw THEN lastUpdated ELSE
  LET fundsValue == Get(state, "funds").value
  IN  IF fundsValue.t \in {"null", "undefined"} THEN Throw("TypeError") ELSE
  LET fundsRevived == reviveAll(itemsOf(fundsValue), {"createdAt", "updatedAt"})
  IN  IF fundsRevived.threw THEN fundsRevived ELSE
  LET transactionsValue == Get(state, "transactions").value
  IN  IF transactionsValue.t # "array" THEN Throw("TypeError") ELSE
  LET transactionsRevived ==
        reviveAll(transactionsValue.items, {"date", "createdAt", "updatedAt"})
  IN  IF transactionsRevived.threw THEN transactionsRevived ELSE
  LET budgetsValue == Get(data, "budgets").value
      budgetsList == IF Falsy(budgetsValue) THEN JArray(<< >>) ELSE budgetsValue
  IN  IF budgetsList.t # "array" THEN Throw("TypeError") ELSE
  LET budgetsRevived == reviveAll(budgetsList.items, {"createdAt", "updatedAt"})
  IN  IF budgetsRevived.threw THEN budgetsRevived ELSE
      Return(JObject(
        [state |-> JObject([lastUpdated |-> NewDate(lastUpdated.value),
                            funds |-> JObject(fundsRevived.value),
                            transactions |-> JArray(transactionsRevived.value)]
                           @@ itemsOf(state)),
         budgets |-> JArray(budgetsRevived.value)]
        @@ data.fields))

loadFromStorage(storage) ==
  LET r == loadFromStorageTry(storage)
  IN  IF r.threw THEN Return(JNull) ELSE r

\* the StoredData object of saveToStorage and exportData, as JSON.stringify
\* writes it
storedDataJSON(f, t, p, e, b) ==
  JSONText(JObject(
    [version |-> JNumber(Dec(CURRENT_VERSION, 1)),
     state |-> stateJSON(f, t, p, e, b),
     budgets |-> JArray([i \in 1..Len(b) |-> budgetJSON(b[i])]),
     reportFilters |-> JObject([period |-> JString("LIFETIME")])]))

saveToStorage(storage, f, t, p, e, b) ==
  setItem(storage, STORAGE_KEY, storedDataJSON(f, t, p, e, b))

exportData(f, t, p, e, b) == storedDataJSON(f, t, p, e, b)

Failure(error) == [success |-> FALSE, error |-> error]

\* the try block of importData
importDataTry(json) ==
  LET parsed == JSONparse(json)
  IN  IF parsed.threw THEN parsed ELSE
  LET version == Get(parsed.value, "version")
  IN  IF version.threw THEN version
      ELSE IF Falsy(version.value) \/ version.value # JNumber(Dec(CURRENT_VERSION, 1))
      THEN Return(Failure("Invalid data version"))
      ELSE
  LET state == Get(parsed.value, "state").value
  IN  IF Falsy(state) \/ Falsy(Get(state, "funds").value)
      THEN Return(Failure("Invalid data structure"))
      ELSE Return([success |-> TRUE, data |-> parsed.value])

importData(json) ==
  LET r == importDataTry(json)
  IN  IF r.threw THEN Return(Failure(r.error)) ELSE r

clearStorage(storage) == removeItem(storage, STORAGE_KEY)

(***************************************************************************)
(* Creation of the store when the page loads: the persist middleware       *)
(* reads the text under its name and merges its state over the initial one *)
(***************************************************************************)
\* a number read back from JSON: null where JSON.stringify wrote null
numberOf(value) == IF value.t = "number" THEN value.num ELSE JNull

fundOf(value) ==
  [currentBalance |-> numberOf(value.fields.currentBalance),
   lifetimeInflow |-> numberOf(value.fields.lifetimeInflow),
   lifetimeOutflow |-> numberOf(value.fields.lifetimeOutflow)]

\* the dates of a rehydrated transaction stay the strings JSON.parse gave
transactionOf(value) ==
  [type |-> value.fields.type.str,
   amount |-> numberOf(value.fields.amount),
   date |-> value.fields.date,
   costOfProduction |->
     IF "costOfProduction" \in DOMAIN value.fields
     THEN numberOf(value.fields.costOfProduction) ELSE undefined,
   sourceFundId |->
     IF "sourceFundId" \in DOMAIN value.fields
     THEN value.fields.sourceFundId.str ELSE NoFund,
   profit |->
     IF "profit" \in DOMAIN value.fields
     THEN numberOf(value.fields.profit) ELSE undefined]

distributionOf(value) ==
  Entry(value.fields.fundId.str, numberOf(value.fields.percentage))

budgetOf(value) ==
  [id |-> value.fields.id.str,
   currentAmount |-> numberOf(value.fields.currentAmount),
   status |-> value.fields.status.str]

InitialState ==
  [funds |-> DEFAULT_FUNDS, transactions |-> << >>,
   profitDistribution |-> DEFAULT_DISTRIBUTION, taxEnabled |-> FALSE,
   budgets |-> << >>]

\* the state of a store created over storage
rehydrate(storage) ==
  IF PERSIST_NAME \notin DOMAIN storage THEN InitialState
  ELSE LET state == JSONparse(storage[PERSIST_NAME]).value.fields.state.fields
       IN  [funds |-> [id \in DOMAIN state.funds.fields |->
                         fundOf(state.funds.fields[id])],
            transactions |-> [i \in DOMAIN state.transactions.items |->
                                transactionOf(state.transactions.items[i])],
            profitDistribution |-> [i \in DOMAIN state.profitDistribution.items |->
                                      distributionOf(state.profitDistribution.items[i])],
            taxEnabled |-> state.taxEnabled.bool,
            budgets |-> [i \in DOMAIN state.budgets.items |->
                           budgetOf(state.budgets.items[i])]]

(***************************************************************************)
(* The settings page                                                       *)
(***************************************************************************)
\* 'Clear All Data': clearStorage(), then window.location.reload()
handleClearData ==
  /\ LET cleared == clearStorage(localStorage)
         state == rehydrate(cleared)
     IN  /\ localStorage' = cleared
         /\ funds' = state.funds
         /\ transactions' = state.transactions
         /\ profitDistribution' = state.profitDistribution
         /\ taxEnabled' = state.taxEnabled
         /\ budgets' = state.budgets
  /\ last' = Outcome("handleClearData", "none")
  /\ UNCHANGED <<uuidCount, steps, call>>

\* a text an earlier run of the storage module left under STORAGE_KEY
LegacyText == storedDataJSON(DEFAULT_FUNDS, << >>, DEFAULT_DISTRIBUTION, FALSE, << >>)

SettingsRequests ==
  { Income(Dec(1, 1), Zero),
    Expense(Dec(25, 100), "personal"),
    Expense(Dec(25, 100), "ghost") }

SettingsLists ==
  { << Entry("personal", Dec(50, 1)), Entry("emergency", Dec(50, 1)) >> }

InitSettings ==
  /\ funds = DEFAULT_FUNDS
  /\ transactions = << >>
  /\ profitDistribution = DEFAULT_DISTRIBUTION
  /\ taxEnabled = FALSE
  /\ uuidCount = 0
  /\ steps = 0
  /\ call = NoCall
  /\ last = Outcome("init", "none")
  /\ budgets = << >>
  /\ localStorage \in { NoItems, setItem(NoItems, STORAGE_KEY, LegacyText) }

NextSettings ==
  \/ \E transactionData \in SettingsRequests : addTransaction(transactionData)
  \/ \E fundId \in UpdateArgs, updates \in FundUpdates : updateFund(fundId, updates)
  \/ \E fundData \in FundData : createFund(fundData)
  \/ \E fundId \in {"taxes"} : deleteFund(fundId)
  \/ \E distributions \in SettingsLists : updateProfitDistribution(distributions)
  \/ \E enabled \in BOOLEAN : toggleTaxFund(enabled)
  \/ \E budgetData \in BudgetData : addBudget(budgetData)
  \/ \E budgetId \in BudgetArgs, updates \in BudgetUpdates : updateBudget(budgetId, updates)
  \/ \E budgetId \in BudgetArgs : deleteBudget(budgetId)
  \/ resetToDefaults
  \/ handleClearData

SpecSettings == InitSettings /\ [][NextSettings]_vars

(***************************************************************************)
(* Direct calls of the storage module                                      *)
(***************************************************************************)
Versioned(version, fields) == JSONText(JObject([version |-> version] @@ fields))

One == JNumber(Dec(CURRENT_VERSION, 1))

EmptyObject == JObject(NoFields)

\* texts found under STORAGE_KEY or pasted into the import box
StoredTexts ==
  { NotJSON,
    EmptyText,
    JSONText(JNull),
    JSONText(JNumber(Dec(5, 1))),
    JSONText(EmptyObject),
    Versioned(JNumber(Dec(2, 1)), LegacyText.value.fields),
    Versioned(JString("1"), LegacyText.value.fields),
    Versioned(JNumber(Zero), LegacyText.value.fields),
    Versioned(One, NoFields),
    Versioned(One, [state |-> JNull]),
    Versioned(One, [state |-> EmptyObject]),
    Versioned(One, [state |-> JObject([funds |-> EmptyObject])]),
    Versioned(One, [state |-> JObject([funds |-> EmptyObject,
                                       transactions |-> EmptyObject])]),
    Versioned(One, [state |-> JObject([funds |-> EmptyObject,
                                       transactions |-> JArray(<< >>)])]),
    Versioned(One, [state |-> JObject([funds |-> JObject([personal |-> JNull]),
                                       transactions |-> JArray(<< >>)])]),
    Versioned(One, [state |-> JObject([funds |-> EmptyObject,
                                       transactions |-> JArray(<< JNull >>)])]),
    Versioned(One, [state |-> JObject([funds |-> EmptyObject,
                                       transactions |-> JArray(<< >>)]),
                    budgets |-> JNumber(Dec(5, 1))]),
    LegacyText }

StorageRequests == { Income(Dec(1, 1), Zero) }

InitStorage ==
  /\ funds = DEFAULT_FUNDS
  /\ transactions = << >>
  /\ profitDistribution = DEFAULT_DISTRIBUTION
  /\ taxEnabled = FALSE
  /\ uuidCount = 0
  /\ steps = 0
  /\ call = NoCall
  /\ last = Outcome("init", "none")
  /\ budgets = << >>
  /\ localStorage \in
       {NoItems} \cup { setItem(NoItems, STORAGE_KEY, text) : text \in StoredTexts }

CallLoadFromStorage ==
  /\ call' = [fn |-> "loadFromStorage", storage |-> localStorage,
              result |-> loadFromStorage(localStorage)]
  /\ UNCHANGED storeVars

CallImportData(json) ==
  /\ call' = [fn |-> "importData", json |-> json, result |-> importData(json)]
  /\ UNCHANGED storeVars

\* saveToStorage(useFinanceStore.getState(), budgets)
CallSaveToStorage ==
  /\ localStorage' = saveToStorage(localStorage, funds, transactions,
                                   profitDistribution, taxEnabled, budgets)
  /\ call' = [fn |-> "saveToStorage"]
  /\ UNCHANGED <<funds, transactions, profitDistribution, taxEnabled, uuidCount,
                 steps, last, budgets>>

NextStorage ==
  \/ \E transactionData \in StorageRequests : addTransaction(transactionData)
  \/ \E budgetData \in BudgetData : addBudget(budgetData)
  \/ CallSaveToStorage
  \/ CallLoadFromStorage
  \/ \E json \in StoredTexts \cup
                 {exportData(funds, transactions, profitDistribution, taxEnabled, budgets)} :
       CallImportData(json)

SpecStorage == InitStorage /\ [][NextStorage]_vars

(***************************************************************************)
(* The transaction form (TransactionForm.handleSubmit)                     *)
(***************************************************************************)
\* parseFloat of the texts the amount and cost inputs accept (their change
\* handlers admit what matches /^\d*\.?\d*$/, a lone point included)
parseFloat(text) ==
  CASE text = "1" -> Dec(1, 1)
    [] text = "0" -> Zero
    [] text = "0.25" -> Dec(25, 100)
    [] text = "." -> NaN

AmountTexts == {"1", "0", "0.25", "."}

CostTexts == {"0", "1", "."}

\* the transactionData handleSubmit builds from the fields of the form
FormRequests ==
  { Request("INCOME", parseFloat(amount), Now, parseFloat(costOfProduction), NoFund) :
      amount \in AmountTexts, costOfProduction \in CostTexts }
  \cup
  { Request("EXPENSE", parseFloat(amount), Now, undefined, sourceFundId) :
      amount \in AmountTexts, sourceFundId \in {"personal"} }

\* submissions of the form
NextForm ==
  \/ \E transactionData \in FormRequests : addTransaction(transactionData)

SpecForm == Init /\ [][NextForm]_vars

(***************************************************************************)
(* Properties                                                              *)
(***************************************************************************)
RECURSIVE SumValues(_, _)
\* the sum of map[k] over k in S
SumValues(map, S) ==
  IF S = {} THEN Zero
  ELSE LET k == CHOOSE x \in S : TRUE
       IN  NAdd(map[k], SumValues(map, S \ {k}))

IsWholeCents(x) == IsFinite(x) /\ NMul(x, Hundred)[2] = 1

\* the last store action was an addTransaction that recorded a transaction
Accepted == last.op = "addTransaction" /\ last.error = "none"

\* the last store action was an addTransaction that threw
Rejected == last.op = "addTransaction" /\ last.error # "none"

LastTx == transactions[Len(transactions)]

\* C1: for every profit >= 0 in whole cents and every list distributeProfit
\* accepts, the amounts of the returned mapping sum exactly to the profit.
\* Stated of the store's active distribution; it fails once toggleTaxFund(true)
\* has put a second 'taxes' entry in the list.
C1_AllocationsSumToProfit ==
  \A profit \in { x \in CalcProfits : IsWholeCents(x) } :
    LET r == distributeProfit(profit, profitDistribution)
    IN  ~r.threw => SumValues(r.value, DOMAIN r.value) = profit

\* C2: every fund has currentBalance = lifetimeInflow - lifetimeOutflow in every
\* state the store actions reach.
C2_BalanceIsInflowMinusOutflow ==
  \A f \in DOMAIN funds :
    funds[f].currentBalance = NSub(funds[f].lifetimeInflow, funds[f].lifetimeOutflow)

RECURSIVE NetOfTransactions(_)
\* the profit of the recorded incomes minus the amount of the recorded expenses
NetOfTransactions(txs) ==
  IF txs = << >> THEN Zero
  ELSE NAdd(IF Head(txs).type = "INCOME" THEN Head(txs).profit
            ELSE NNeg(Head(txs).amount),
            NetOfTransactions(Tail(txs)))

\* C3: the fund balances sum to the recorded profit minus the recorded expenses.
C3_BalancesSumToNet ==
  SumValues([f \in DOMAIN funds |-> funds[f].currentBalance], DOMAIN funds)
    = NetOfTransactions(transactions)

\* C4: an accepted EXPENSE takes its amount off the source fund's balance, adds
\* it to that fund's lifetimeOutflow and changes no other fund and no inflow.
C4_ExpenseFrame ==
  [][ (Accepted' /\ Len(transactions') = Len(transactions) + 1
         /\ LastTx'.type = "EXPENSE")
      => LET t == LastTx'
             src == t.sourceFundId
         IN  /\ DOMAIN funds' = DOMAIN funds
             /\ src \in DOMAIN funds
             /\ funds'[src].currentBalance = NSub(funds[src].currentBalance, t.amount)
             /\ funds'[src].lifetimeOutflow = NAdd(funds[src].lifetimeOutflow, t.amount)
             /\ funds'[src].lifetimeInflow = funds[src].lifetimeInflow
             /\ \A f \in (DOMAIN funds) \ {src} : funds'[f] = funds[f] ]_vars

C4_Witness ==
  /\ Accepted
  /\ Len(transactions) > 0
  /\ LastTx.type = "EXPENSE"
  /\ funds[LastTx.sourceFundId].lifetimeOutflow = LastTx.amount

\* C5: an addTransaction that throws leaves funds, transactions, distribution
\* and taxEnabled as they were; one that succeeds appends exactly one record
\* and leaves distribution and taxEnabled alone; the funds never change
\* without a record being appended.
C5_AllOrNothing ==
  [][ /\ Rejected'
        => /\ funds' = funds
           /\ transactions' = transactions
           /\ profitDistribution' = profitDistribution
           /\ taxEnabled' = taxEnabled
      /\ last'.op = "addTransaction"
        => /\ Len(transactions') = Len(transactions) + 1 <=> Accepted'
           /\ Len(transactions') > Len(transactions)
                => SubSeq(transactions', 1, Len(transactions)) = transactions
           /\ Len(transactions') = Len(transactions) => funds' = funds
           /\ profitDistribution' = profitDistribution
           /\ taxEnabled' = taxEnabled ]_vars

\* the allocator has refused an income that passed validation
C5_Witness ==
  /\ Rejected
  /\ last.error = DistributionSumError
  /\ ~validateProfitDistribution(profitDistribution).isValid

\* round2(profit * percentage / 100) of entry i
Share(profit, distributions, i) ==
  Round2(NDiv(NMul(profit, distributions[i].percentage), Hundred))

RECURSIVE SumShares(_, _, _)
\* the sum of the shares of entries 1..n
SumShares(profit, distributions, n) ==
  IF n = 0 THEN Zero
  ELSE NAdd(Share(profit, distributions, n), SumShares(profit, distributions, n - 1))

\* the index of the last entry of the list that names the fund
LastIndexOf(distributions, fundId) ==
  CHOOSE i \in 1..Len(distributions) :
    /\ distributions[i].fundId = fundId
    /\ \A j \in (i + 1)..Len(distributions) : distributions[j].fundId # fundId

FundIdsOf(distributions) == { distributions[i].fundId : i \in 1..Len(distributions) }

\* what entry i is given, as C6 states it (rest unrounded / rounded)
C6_Given(profit, distributions, i, rounded) ==
  LET n == Len(distributions)
      rest == NSub(profit, SumShares(profit, distributions, n - 1))
  IN  IF i < n THEN Share(profit, distributions, i)
      ELSE IF rounded THEN Round2(rest) ELSE rest

C6_Examples ==
  /\ distributeProfit(Dec(600, 1),
                      << Entry("A", Dec(50, 1)), Entry("B", Dec(50, 1)) >>)
       = Return(("A" :> Dec(300, 1)) @@ ("B" :> Dec(300, 1)))
  /\ distributeProfit(Dec(6667, 100),
                      << Entry("A", Dec(33, 1)), Entry("B", Dec(33, 1)),
                         Entry("C", Dec(34, 1)) >>)
       = Return(("A" :> Dec(22, 1)) @@ ("B" :> Dec(22, 1)) @@ ("C" :> Dec(2267, 100)))

C7_IncomeFrame ==
  [][ (Accepted' /\ Len(transactions') = Len(transactions) + 1
         /\ LastTx'.type = "INCOME")
      => LET allocated == distributeProfit(LastTx'.profit, profitDistribution).value
         IN  /\ DOMAIN funds' = DOMAIN funds
             /\ \A f \in DOMAIN funds :
                  IF f \in DOMAIN allocated
                  THEN /\ funds'[f].currentBalance
                            = NAdd(funds[f].currentBalance, allocated[f])
                       /\ funds'[f].lifetimeInflow
                            = NAdd(funds[f].lifetimeInflow, allocated[f])
                       /\ funds'[f].lifetimeOutflow = funds[f].lifetimeOutflow
                  ELSE funds'[f] = funds[f] ]_vars

C7_Witness ==
  /\ Accepted
  /\ Len(transactions) > 0
  /\ LastTx.type = "INCOME"
  /\ funds["personal"].lifetimeInflow = Dec(25, 100)
  /\ funds["personal"].currentBalance = Dec(25, 100)

\* C8: no store action lowers the lifetimeInflow or the lifetimeOutflow of a
\* fund it keeps in the collection.
C8_CountersNeverDecrease ==
  [][ \A f \in (DOMAIN funds) \cap (DOMAIN funds') :
        /\ NLe(funds[f].lifetimeInflow, funds'[f].lifetimeInflow)
        /\ NLe(funds[f].lifetimeOutflow, funds'[f].lifetimeOutflow) ]_vars

\* C9: a fund's currentBalance is lowered only by an accepted EXPENSE whose
\* sourceFundId is that fund.
C9_BalanceLoweredOnlyByExpense ==
  [][ \A f \in (DOMAIN funds) \cap (DOMAIN funds') :
        NLt(funds'[f].currentBalance, funds[f].currentBalance)
          => /\ Accepted'
             /\ Len(transactions') = Len(transactions) + 1
             /\ LastTx'.type = "EXPENSE"
             /\ LastTx'.sourceFundId = f ]_vars

\* the expenses C10 is read on: every fund, a missing and an unknown source,
\* amounts at, just above and just below the source's balance
C10_Sources == (DOMAIN funds) \cup {NoFund, "ghost"}

C10_Amounts(src) ==
  {Dec(25, 100), Dec(30, 100)}
    \cup (IF src \in DOMAIN funds
          THEN { funds[src].currentBalance,
                 NAdd(funds[src].currentBalance, Dec(1, 100)),
                 NSub(funds[src].currentBalance, Dec(1, 100)) }
          ELSE {})

\* C10: validateTransaction rejects an EXPENSE whose sourceFundId is missing
\* or no key of the funds, rejects one whose amount exceeds the source's
\* balance (addTransaction then throws, so the balance stays) and accepts one
\* whose amount equals the balance; the reasons are those of the code when the
\* amount is positive and the date not in the future.
C10_ExpenseValidation ==
  \A src \in C10_Sources : \A amount \in C10_Amounts(src) :
    LET req == Expense(amount, src)
        v == validateTransaction(req, funds)
        positive == NGt(amount, Zero)
    IN  /\ src = NoFund
          => /\ ~v.isValid
             /\ positive => v.error = "Source fund is required for expenses"
        /\ (src # NoFund /\ src \notin DOMAIN funds)
          => /\ ~v.isValid
             /\ positive => v.error = "Selected fund does not exist"
        /\ (src \in DOMAIN funds /\ NGt(amount, funds[src].currentBalance))
          => /\ ~v.isValid
             /\ positive => v.error = "Insufficient funds in selected account"
             /\ addTransactionResult(req, funds, profitDistribution).threw
        /\ (src \in DOMAIN funds /\ amount = funds[src].currentBalance /\ positive)
          => v.isValid
        /\ (src \in DOMAIN funds /\ NLt(amount, funds[src].currentBalance) /\ positive)
          => v.isValid

\* an expense above a positive balance has been refused
C10_Witness ==
  /\ Rejected
  /\ last.error = "Insufficient funds in selected account"
  /\ funds["personal"].currentBalance = Dec(25, 100)
  /\ transactions # << >>

\* the reasons validateTransaction gives for an INCOME and for an EXPENSE
IncomeReasons ==
  { "Cost of production is required for income",
    "Cost of production cannot be negative",
    "Cost of production cannot exceed income", "Profit must be non-negative" }

ExpenseReasons ==
  { "Source fund is required for expenses", "Selected fund does not exist",
    "Insufficient funds in selected account" }

\* C11: validateTransaction reports the first failing rule: an amount <= 0 is
\* "Amount must be positive" whatever the other fields; otherwise a date after
\* the evaluation time is rejected as in the future; only otherwise is the
\* outcome one of the rules of the request's type.
C11_FixedOrder ==
  call.fn = "validateTransaction"
    => LET t == call.transaction
           r == call.result
       IN  /\ NLe(t.amount, Zero) => r = Invalid("Amount must be positive")
           /\ (~NLe(t.amount, Zero) /\ t.date > Now)
                => r = Invalid("Transaction date cannot be in the future")
           /\ (~NLe(t.amount, Zero) /\ t.date <= Now)
                => \/ r = Valid
                   \/ /\ ~r.isValid
                      /\ r.error \in (IF t.type = "INCOME" THEN IncomeReasons
                                      ELSE ExpenseReasons)

\* a request that breaks the amount, the date and an INCOME rule at once
C11_Witness ==
  /\ call.fn = "validateTransaction"
  /\ call.transaction = Request("INCOME", Zero, Now + 1, undefined, NoFund)
  /\ call.result = Invalid("Amount must be positive")

\* C12: validateTransaction rejects an INCOME whose costOfProduction is absent,
\* negative or above the amount, accepts every INCOME with amount > 0, a date
\* not in the future and 0 <= costOfProduction <= amount (cost = amount
\* included), and gives an INCOME the same answer for every fund collection.
C12_IncomeRules ==
  (call.fn = "validateTransaction" /\ call.transaction.type = "INCOME")
    => LET t == call.transaction
           r == call.result
           cost == t.costOfProduction
       IN  /\ cost = undefined => ~r.isValid
           /\ (cost # undefined /\ NLt(cost, Zero)) => ~r.isValid
           /\ (cost # undefined /\ NGt(cost, t.amount)) => ~r.isValid
           /\ (cost # undefined /\ NGt(t.amount, Zero) /\ t.date <= Now
                 /\ NLe(Zero, cost) /\ NLe(cost, t.amount))
                => r = Valid
           /\ \A fundsArg \in CalcFunds \cup {DEFAULT_FUNDS} :
                validateTransaction(t, fundsArg) = r

\* an income whose cost is its whole amount has been accepted
C12_Witness ==
  /\ call.fn = "validateTransaction"
  /\ call.transaction = Request("INCOME", Dec(1, 1), Now, Dec(1, 1), NoFund)
  /\ call.result = Valid

\* C13: calculateProfit returns income - cost when 0 <= cost <= income and
\* throws, returning nothing, when income < 0, cost < 0 or cost > income.
C13_ProfitContract ==
  call.fn = "calculateProfit"
    => LET income == call.income
           cost == call.costOfProduction
       IN  /\ (NLe(Zero, cost) /\ NLe(cost, income))
                => call.result = Return(NSub(income, cost))
           /\ (NLt(income, Zero) \/ NLt(cost, Zero) \/ NGt(cost, income))
                => /\ call.result.threw
                   /\ DOMAIN call.result = {"threw", "error"}

C13_Witness ==
  /\ call.fn = "calculateProfit"
  /\ call.income = Dec(2, 1)
  /\ call.costOfProduction = Dec(1, 1)
  /\ call.result = Return(Dec(1, 1))

\* a cost above the income has been refused
C13_WitnessThrow ==
  /\ call.fn = "calculateProfit"
  /\ call.income = Dec(1, 1)
  /\ call.costOfProduction = Dec(2, 1)
  /\ call.result.threw

\* the percentages of the list, in order
PercentagesOf(distributions) ==
  [i \in 1..Len(distributions) |-> distributions[i].percentage]

\* C14: validateProfitDistribution accepts the list {100}, rejects the list
\* {60, 39.99} and the empty list, and distributeProfit throws, returning no
\* mapping, for every list validateProfitDistribution rejects.
C14_SumRule ==
  call.fn = "distributeProfit"
    => LET distributions == call.distributions
           validation == validateProfitDistribution(distributions)
       IN  /\ PercentagesOf(distributions) = << Hundred >> => validation.isValid
           /\ PercentagesOf(distributions) \in { << Dec(60, 1), Dec(3999, 100) >>,
                                                 << Dec(3999, 100), Dec(60, 1) >> }
                => ~validation.isValid
           /\ distributions = << >> => ~validation.isValid
           /\ ~validation.isValid
                => /\ call.result.threw
                   /\ DOMAIN call.result = {"threw", "error"}

\* C15: in every state the store actions reach, the percentages of the active
\* distribution sum to 100 within 0.01, so distributeProfit accepts the list.
C15_DistributionSumsTo100 == validateProfitDistribution(profitDistribution).isValid

\* a recorded transaction has the fund as its sourceFundId
Referenced(fundId) ==
  \E i \in 1..Len(transactions) : transactions[i].sourceFundId = fundId

\* C16: deleteFund removes a fund only when its currentBalance is exactly zero
\* and no recorded transaction has it as sourceFundId; a deleteFund that
\* throws leaves funds, distribution and transactions as they were.
C16_DeleteOnlyAtZero ==
  [][ last'.op = "deleteFund"
        => /\ \A f \in (DOMAIN funds) \ (DOMAIN funds') :
                /\ funds[f].currentBalance = Zero
                /\ ~Referenced(f)
           /\ last'.error # "none"
                => /\ funds' = funds
                   /\ profitDistribution' = profitDistribution
                   /\ transactions' = transactions ]_vars

\* the step is a toggleTaxFund(enabled) that has completed
Toggled(enabled) ==
  /\ last'.op = "toggleTaxFund"
  /\ steps' = steps + 1
  /\ taxEnabled' = enabled

\* the list's percentages sum to 100 exactly
SumsTo100(distributions) == SumPercentage(distributions, 1) = Hundred

\* C17: toggleTaxFund(true) on a list without a tax entry whose percentages
\* sum to T > 0 turns every percentage p into p * 95 / T, keeps the order,
\* appends one 'taxes' entry of exactly 5 as the last entry and leaves a list
\* summing to 100; [A 50, B 50] becomes [A 47.5, B 47.5, taxes 5].
C17_EnableRescales ==
  [][ LET n == Len(profitDistribution)
          T == SumPercentage(profitDistribution, 1)
      IN  (Toggled(TRUE) /\ "taxes" \notin FundIdsOf(profitDistribution)
             /\ NGt(T, Zero))
            => /\ Len(profitDistribution') = n + 1
               /\ \A i \in 1..n :
                    profitDistribution'[i]
                      = Entry(profitDistribution[i].fundId,
                              NDiv(NMul(profitDistribution[i].percentage, Dec(95, 1)), T))
               /\ profitDistribution'[n + 1] = Entry("taxes", Dec(5, 1))
               /\ SumsTo100(profitDistribution')
               /\ profitDistribution = << Entry("A", Dec(50, 1)), Entry("B", Dec(50, 1)) >>
                    => profitDistribution'
                         = << Entry("A", Dec(475, 10)), Entry("B", Dec(475, 10)),
                              Entry("taxes", Dec(5, 1)) >> ]_vars

\* the tax fund has been enabled on [A 60, B 30]
C17_Witness ==
  /\ last.op = "toggleTaxFund"
  /\ taxEnabled
  /\ profitDistribution = << Entry("A", Dec(190, 3)), Entry("B", Dec(95, 3)),
                             Entry("taxes", Dec(5, 1)) >>

\* what C18 says of a completed toggleTaxFund(false): the list left is the
\* list without its 'taxes' entries, each percentage p turned into
\* p * 100 / (sum of the remaining percentages); it sums to 100 and keeps the
\* ratios between the entries
C18_Disabled ==
  LET remaining == FilterOut(profitDistribution, "taxes")
      S == SumPercentage(remaining, 1)
  IN  /\ "taxes" \notin FundIdsOf(profitDistribution')
      /\ Len(profitDistribution') = Len(remaining)
      /\ \A i \in 1..Len(remaining) :
           profitDistribution'[i]
             = Entry(remaining[i].fundId,
                     NDiv(NMul(remaining[i].percentage, Hundred), S))
      /\ \A i, j \in 1..Len(remaining) :
           NMul(profitDistribution'[i].percentage, remaining[j].percentage)
             = NMul(profitDistribution'[j].percentage, remaining[i].percentage)
      /\ SumsTo100(profitDistribution')

C19_RoundTrip ==
  LET back == toggleTaxFundResult(FALSE, toggleTaxFundResult(TRUE, profitDistribution))
  IN  /\ Len(back) = Len(profitDistribution)
      /\ \A i \in 1..Len(profitDistribution) :
           /\ back[i].fundId = profitDistribution[i].fundId
           /\ NLe(MathAbs(NSub(back[i].percentage, profitDistribution[i].percentage)),
                  Dec(1, 100))

\* C20: a toggleTaxFund called when the non-tax entries of the active
\* distribution sum to zero leaves the distribution and taxEnabled as they were.
C20_DegenerateToggleIsNoOp ==
  [][ (last'.op = "toggleTaxFund" /\ steps' = steps + 1
         /\ SumPercentage(FilterOut(profitDistribution, "taxes"), 1) = Zero)
      => /\ profitDistribution' = profitDistribution
         /\ taxEnabled' = taxEnabled ]_vars

\* C21: the transaction list is append-only. Every addTransaction that
\* succeeds appends exactly one record, the transaction it was given with its
\* profit, at the end of the list, and every store action other than
\* resetToDefaults leaves the old list a prefix of the new one.
C21_AppendOnly ==
  [][ /\ last'.op # "resetToDefaults"
         => /\ Len(transactions') >= Len(transactions)
            /\ SubSeq(transactions', 1, Len(transactions)) = transactions
      /\ (last'.op = "addTransaction" /\ last'.error = "none")
         => /\ Len(transactions') = Len(transactions) + 1
            /\ \E transactionData \in Requests :
                 /\ addTransaction(transactionData)
                 /\ transactions'[Len(transactions')].amount = transactionData.amount
                 /\ transactions'[Len(transactions')].type = transactionData.type
      /\ (last'.op = "addTransaction" /\ last'.error # "none")
         => transactions' = transactions ]_vars

\* a second record has been appended behind a different first one
C21_Witness ==
  /\ Accepted
  /\ Len(transactions) >= 2
  /\ transactions[1] # LastTx

\* C23: the sourceFundId of every recorded EXPENSE is a fund of the current
\* collection.
C23_ExpenseSourceExists ==
  \A i \in 1..Len(transactions) :
    transactions[i].type = "EXPENSE" => transactions[i].sourceFundId \in DOMAIN funds

\* deleteFund has just refused an emptied fund that an EXPENSE names
C23_Witness ==
  /\ last = Outcome("deleteFund", "Cannot delete fund referenced in transactions")
  /\ \E i \in 1..Len(transactions) :
       /\ transactions[i].type = "EXPENSE"
       /\ ~NGt(funds[transactions[i].sourceFundId].currentBalance, Zero)

\* INCOME requests that differ in amount and cost from the store's requests
\* of the same profit
C22_Others ==
  { Income(Dec(2, 1), Dec(1, 1)),           \* profit 1.00
    Income(Dec(6, 100), Zero),              \* profit 0.06
    Income(Dec(1005, 1000), Dec(1, 1)),     \* profit 0.005
    Income(Dec(2, 1), Dec(2, 1)),           \* profit 0
    Income(Dec(3, 1), Dec(1, 1)) }          \* profit 2.00, matched by no request

\* C22: two accepted INCOME transactions of the same profit and of different
\* amount and cost, applied to the same funds under the same distribution,
\* give the same funds (balances and counters). Stated of every accepted
\* INCOME of the store against every other INCOME of the same profit.
C22_SameProfitSameFunds ==
  [][ (/\ last'.op = "addTransaction"
       /\ last'.error = "none"
       /\ transactions'[Len(transactions')].type = "INCOME")
      => \A other \in C22_Others :
           LET t == transactions'[Len(transactions')]
               p == calculateProfit(other.amount, other.costOfProduction)
               r == addTransactionResult(other, funds, profitDistribution)
           IN  (~p.threw /\ p.value = t.profit /\ other.amount # t.amount)
               => (~r.threw /\ r.value.funds = funds') ]_vars

\* an INCOME with a cost has been distributed, and an INCOME of another amount
\* has the same profit
C22_Witness ==
  /\ Accepted
  /\ LastTx.type = "INCOME"
  /\ NGt(LastTx.costOfProduction, Zero)
  /\ \E other \in C22_Others :
       /\ calculateProfit(other.amount, other.costOfProduction) = Return(LastTx.profit)
       /\ other.amount # LastTx.amount
  /\ \E f \in DOMAIN funds : funds[f].lifetimeInflow # Zero

\* C25: createFund adds exactly one fund, under an id that was no key of the
\* collection, with currentBalance, lifetimeInflow and lifetimeOutflow zero,
\* and leaves every existing fund, the transaction list and the active
\* distribution as they were.
C25_CreateFundFrame ==
  [][ last'.op = "createFund"
      => /\ \E id \in (DOMAIN funds') \ (DOMAIN funds) :
              /\ DOMAIN funds' = (DOMAIN funds) \cup {id}
              /\ funds'[id].currentBalance = Zero
              /\ funds'[id].lifetimeInflow = Zero
              /\ funds'[id].lifetimeOutflow = Zero
         /\ \A f \in DOMAIN funds : funds'[f] = funds[f]
         /\ transactions' = transactions
         /\ profitDistribution' = profitDistribution ]_vars

\* a second fund has been created in a store that holds money and a record
C25_Witness ==
  /\ last.op = "createFund"
  /\ uuidCount >= 2
  /\ Len(transactions) > 0
  /\ \E f \in DOMAIN funds : funds[f].currentBalance # Zero

\* C26 (as claimed): after the settings page's 'Clear All Data' no persisted
\* store data is left in local storage, and the reloaded store is in the
\* default state.
C26_ClearDataStartsFromDefaults ==
  last.op = "handleClearData"
  => /\ DOMAIN localStorage = {}
     /\ funds = DEFAULT_FUNDS
     /\ transactions = << >>
     /\ profitDistribution = DEFAULT_DISTRIBUTION
     /\ taxEnabled = FALSE
     /\ budgets = << >>

\* C27: after any sequence of store actions resetToDefaults leaves exactly the
\* initial store state: the default funds with their three money fields zero
\* and no other fund, no transaction, the default distribution, taxEnabled
\* false and no budget.
C27_ResetIsInitial ==
  last.op = "resetToDefaults"
  => /\ funds = DEFAULT_FUNDS
     /\ \A f \in DOMAIN funds :
          /\ funds[f].currentBalance = Zero
          /\ funds[f].lifetimeInflow = Zero
          /\ funds[f].lifetimeOutflow = Zero
     /\ transactions = << >>
     /\ profitDistribution = DEFAULT_DISTRIBUTION
     /\ taxEnabled = FALSE
     /\ budgets = << >>
     /\ [funds |-> funds, transactions |-> transactions,
         profitDistribution |-> profitDistribution, taxEnabled |-> taxEnabled,
         budgets |-> budgets] = InitialState

\* resetToDefaults has run as the third action, after two funds or budgets
\* were created
C27_Witness ==
  /\ last.op = "resetToDefaults"
  /\ steps >= 3
  /\ uuidCount >= 2

\* the serialized form of a snapshot: an object with a state that holds the
\* funds, the transactions, the distribution, the tax flag and the timestamp
HasExpectedStructure(value) ==
  /\ value.t = "object"
  /\ "state" \in DOMAIN value.fields
  /\ value.fields.state.t = "object"
  /\ {"funds", "transactions", "profitDistribution", "taxEnabled", "lastUpdated"}
       \subseteq DOMAIN value.fields.state.fields
  /\ value.fields.state.fields.funds.t = "object"
  /\ value.fields.state.fields.transactions.t = "array"
  /\ value.fields.state.fields.profitDistribution.t = "array"

\* the payload under STORAGE_KEY is one loadFromStorage may return as data:
\* present, JSON, of the current version and of the expected structure
Usable(storage) ==
  /\ STORAGE_KEY \in DOMAIN storage
  /\ storage[STORAGE_KEY].text = "json"
  /\ Get(storage[STORAGE_KEY].value, "version") = Return(One)
  /\ HasExpectedStructure(storage[STORAGE_KEY].value)

\* neither loadFromStorage nor importData raises, and importData fails on a
\* text that is no JSON or has another version
C24_NeverRaises ==
  /\ call.fn = "loadFromStorage" => ~call.result.threw
  /\ call.fn = "importData"
     => /\ ~call.result.threw
        /\ (\/ call.json.text # "json"
            \/ Get(call.json.value, "version") # Return(One))
           => ~call.result.value.success

\* C24 (as claimed): loadFromStorage never raises and returns null when the
\* payload is absent, is no JSON, lacks the expected structure or has another
\* version; importData returns a failure, and does not raise, for a text that
\* is no JSON or has another version.
C24_LoadIsNullUnlessUsable ==
  /\ C24_NeverRaises
  /\ (call.fn = "loadFromStorage" /\ ~Usable(call.storage))
     => call.result = Return(JNull)

\* loadFromStorage has returned null for a payload of the current version
\* whose state is missing
C24_Witness ==
  /\ call.fn = "loadFromStorage"
  /\ STORAGE_KEY \in DOMAIN call.storage
  /\ call.storage[STORAGE_KEY] = Versioned(One, NoFields)
  /\ call.result = Return(JNull)

\* C28 (as claimed): in every state reached by accepted transactions and by
\* store actions that do not set a balance directly, every fund's
\* currentBalance is at least 0.
C28_BalancesNonNegative ==
  \A f \in DOMAIN funds : NLe(Zero, funds[f].currentBalance)

\* the number of entries of the list that name fundId
RECURSIVE CountOf(_, _)
CountOf(distributions, fundId) ==
  IF distributions = << >> THEN 0
  ELSE (IF Head(distributions).fundId = fundId THEN 1 ELSE 0)
       + CountOf(Tail(distributions), fundId)

\* no two entries of the active distribution name the same fund
C29_NoDuplicateFundIds ==
  \A i, j \in 1..Len(profitDistribution) :
    profitDistribution[i].fundId = profitDistribution[j].fundId => i = j

\* C29 (as claimed): taxEnabled is true exactly when the active distribution
\* has a 'taxes' entry, and the distribution never has two entries of the
\* same fundId.
C29_TaxFlagMatchesList ==
  /\ taxEnabled <=> CountOf(profitDistribution, "taxes") > 0
  /\ C29_NoDuplicateFundIds

\* C30 (as claimed): every recorded transaction has amount > 0; every recorded
\* INCOME has 0 <= costOfProduction <= amount and a stored profit equal to
\* amount - costOfProduction; every recorded EXPENSE has a sourceFundId and
\* no profit.
C30_RecordsAreValid ==
  \A i \in 1..Len(transactions) :
    LET t == transactions[i]
    IN  /\ NGt(t.amount, Zero)
        /\ t.type = "INCOME"
           => /\ t.costOfProduction # undefined
              /\ NLe(Zero, t.costOfProduction)
              /\ NLe(t.costOfProduction, t.amount)
              /\ t.profit = NSub(t.amount, t.costOfProduction)
        /\ t.type = "EXPENSE"
           => /\ t.sourceFundId # NoFund
              /\ t.profit = undefined

====
